---- MODULE Spec2Model ----
(***************************************************************************)
(* Model of lib/src/simple_op_heads_store.rs: the directory of op-head     *)
(* markers, the legacy-layout migration done by load, the head resolution  *)
(* of get_heads and the lock-bound finisher.                               *)
(*                                                                         *)
(* A directory is the set of its entry names; a name is a sequence of      *)
(* one-character strings.  An OperationId is a sequence of bytes.  Every   *)
(* filesystem call (read_dir, write, remove_file, create_dir) is one       *)
(* atomic step; a function that makes several of them is several steps.    *)
(***************************************************************************)
EXTENDS Naturals, Sequences, FiniteSets, TLC

\* ------------------------------------------------------------------ bounds
MaxOps == 4
MaxTime == 2
MaxLoads == 2
MaxReruns == 2
MaxTz == 1

\* Two processes share the store.
Procs == {"p1", "p2"}
NoProc == "none"

\* ------------------------------------------------- names and hex encoding
HexLower == <<"0","1","2","3","4","5","6","7","8","9","a","b","c","d","e","f">>
HexUpper == <<"0","1","2","3","4","5","6","7","8","9","A","B","C","D","E","F">>

IsHexChar(c) == \E i \in 1..16 : HexLower[i] = c \/ HexUpper[i] = c

HexVal(c) == (CHOOSE i \in 1..16 : HexLower[i] = c \/ HexUpper[i] = c) - 1

\* OperationId::hex: two lowercase digits per byte.
Hex(id) ==
    [i \in 1..(2 * Len(id)) |->
        IF i % 2 = 1 THEN HexLower[(id[(i + 1) \div 2] \div 16) + 1]
                     ELSE HexLower[(id[i \div 2] % 16) + 1]]

\* hex::decode: an error on an odd length or on a character that is no hex
\* digit; both cases of a letter are accepted.
HexDecode(name) ==
    IF Len(name) % 2 # 0 \/ \E i \in 1..Len(name) : ~IsHexChar(name[i])
    THEN [ok |-> FALSE, bytes |-> <<>>]
    ELSE [ok |-> TRUE,
          bytes |-> [i \in 1..(Len(name) \div 2) |->
                        16 * HexVal(name[2 * i - 1]) + HexVal(name[2 * i])]]

SubDirName == <<"s","i","m","p","l","e","_","o","p","_","h","e","a","d","s">>
LockName == <<"l","o","c","k">>

\* The operation ids of the model: one byte each.
OpId(n) == <<n>>
AllIds == {OpId(n) : n \in 1..MaxOps}
RootId == OpId(1)

\* ------------------------------------------------------------- sequences
Range(s) == {s[i] : i \in 1..Len(s)}

RECURSIVE Orderings(_)
\* Every order in which the elements of S can be listed.
Orderings(S) ==
    IF S = {} THEN {<<>>}
    ELSE UNION {{<<x>> \o o : o \in Orderings(S \ {x})} : x \in S}

VARIABLES
    parentDir,   \* entries of the store directory given to load (legacy layout)
    subDir,      \* entries of dir/simple_op_heads (meaningful once it exists)
    opStore,     \* the operation store: id -> [parents, time, tz]
    lockHolder,  \* the process owning the FileLock, or NoProc
    pc,          \* each process's position
    opHeadIds,   \* handle_ancestor_ops: op_head_ids_before, the ids enumerated under the lock
    pruneLeft,   \* handle_ancestor_ops: removed heads still to delete
    finLeft,     \* finish: the filesystem steps still to make
    newOp,       \* the operation a caller is finishing
    result,      \* what the last call of a process returned
    locksTaken,  \* how often the get_heads call of a process took the lock
    removalRace, \* whether some remove_op_head found its marker absent
    migLeft,     \* load: the legacy ids still to migrate
    legacy0,     \* the ids whose markers the legacy layout held at first
    interrupted, \* whether a load was stopped before it returned
    loads,       \* the number of load calls that returned
    merged,      \* the head sets whose merge operation a caller has finished
    dir0,        \* the entries the op-heads directory held at first
    reruns       \* how often finish was called again for the same operation

fsVars == <<parentDir, subDir>>
ghVars == <<opHeadIds, pruneLeft, locksTaken>>
finVars == <<finLeft, newOp>>
migVars == <<migLeft, legacy0, interrupted, loads>>
histVars == <<merged, dir0, reruns>>

vars == <<parentDir, subDir, opStore, lockHolder, pc, opHeadIds, pruneLeft,
          finLeft, newOp, result, locksTaken, removalRace, migLeft, legacy0,
          interrupted, loads, merged, dir0, reruns>>

NoId == <<>>

\* ------------------------------------------------------------ filesystem
\* std::fs::write of an empty file: the entry exists afterwards.
WriteFile(d, name) == d \cup {name}

\* std::fs::remove_file: an error when the entry does not exist.
RemoveFile(d, name) == [ok |-> name \in d, dir |-> d \ {name}]

\* ------------------------------------------------ InnerSimpleOpHeadsStore
add_op_head(d, id) == WriteFile(d, Hex(id))

\* A remove_op_head that leaves the marker in place.
remove_op_head_keep(d, id) == [dir |-> d, panic |-> FALSE]

\* A remove_op_head that unwraps the result of remove_file.
remove_op_head_unwrap(d, id) ==
    [dir |-> RemoveFile(d, Hex(id)).dir, panic |-> ~RemoveFile(d, Hex(id)).ok]

\* remove_file(..).ok(): the error of a missing entry is discarded.
remove_op_head(d, id) == [dir |-> RemoveFile(d, Hex(id)).dir, panic |-> FALSE]

\* The vectors get_op_heads can return: read_dir lists the entries in any
\* order and the names hex::decode rejects are skipped.
get_op_heads(d) ==
    {[i \in 1..Len(o) |-> HexDecode(o[i]).bytes] :
        o \in Orderings({n \in d : HexDecode(n).ok})}

\* Whether remove_op_head(d, id) meets an absent marker.
MarkerAbsent(d, id) == ~RemoveFile(d, Hex(id)).ok

\* The HeadSet a directory holds.
HeadSet(d) == {HexDecode(n).bytes : n \in {m \in d : HexDecode(m).ok}}

\* ------------------------------------------------------- operation store
ReadOperation(store, id) ==
    IF id \in DOMAIN store THEN [ok |-> TRUE, op |-> store[id]]
                           ELSE [ok |-> FALSE, op |-> [parents |-> <<>>, time |-> 0, tz |-> 0]]

WriteOperation(store, id, op) ==
    [x \in DOMAIN store \cup {id} |-> IF x = id THEN op ELSE store[x]]

RECURSIVE Ancestors(_, _)
\* The operations reached from id by one or more parent steps.
Ancestors(store, id) ==
    LET ps == Range(store[id].parents)
    IN  ps \cup UNION {Ancestors(store, q) : q \in ps}

\* dag_walk::heads: the nodes of S no other node of S reaches.
DagHeads(store, S) == {x \in S : \A y \in S : x \notin Ancestors(store, y)}

\* A handle_ancestor_ops that deletes the heads it keeps instead of their
\* ancestors.
AncestorOpsRemovedInverted(store, ids) == DagHeads(store, ids)

\* A handle_ancestor_ops that deletes every head it was given.
AncestorOpsRemovedAll(store, ids) == ids

\* A handle_ancestor_ops that deletes nothing from disk.
AncestorOpsRemovedNone(store, ids) == {}

\* handle_ancestor_ops: of the set ids (op_head_ids_before), the heads that
\* are deleted from disk and the heads that are kept (op_head_ids_after).
AncestorOpsRemoved(store, ids) == ids \ DagHeads(store, ids)

AncestorOpsKept(store, ids) == DagHeads(store, ids)

\* An insertion that ignores the key, which leaves the list as it came.
InsertAtEnd(store, sorted, x) == Append(sorted, x)

\* sort_by_key(end_time.timestamp): a stable sort, so an element goes behind
\* every element already placed whose key is not greater.
InsertByEndTime(store, sorted, x) ==
    LET k == Cardinality({i \in 1..Len(sorted) : store[sorted[i]].time <= store[x].time})
    IN  SubSeq(sorted, 1, k) \o <<x>> \o SubSeq(sorted, k + 1, Len(sorted))

RECURSIVE SortByEndTime(_, _)
SortByEndTime(store, s) ==
    IF s = <<>> THEN <<>>
    ELSE InsertByEndTime(store, SortByEndTime(store, SubSeq(s, 1, Len(s) - 1)), s[Len(s)])

\* ----------------------------------------------------- get_heads results
NoResult == [kind |-> "None", ops |-> <<>>]
NoHeads == [kind |-> "NoHeads", ops |-> <<>>]
Panic == [kind |-> "Panic", ops |-> <<>>]
Single(id) == [kind |-> "Single", ops |-> <<id>>]
Unresolved(ids) == [kind |-> "Unresolved", ops |-> ids]



\* ------------------------------------------------------------- FileLock
\* FileLock::lock creates dir/lock and waits while it exists; dropping the
\* lock removes it.
LockFree == lockHolder = NoProc /\ LockName \notin subDir

Unlocked(d) == d \ {LockName}

\* ------------------------------------------------------------------ Init
\* The root operation; it is an ancestor of every other operation, so its
\* end time is never compared.
RootOp == [parents |-> <<>>, time |-> 1, tz |-> 0]

\* The state SimpleOpHeadsStore::init leaves: the root operation is written
\* and is the only head.
Init ==
    /\ parentDir = {SubDirName}
    /\ opStore = [x \in {RootId} |-> RootOp]
    /\ subDir = add_op_head({}, RootId)
    /\ lockHolder = NoProc
    /\ pc = [p \in Procs |-> "idle"]
    /\ opHeadIds = [p \in Procs |-> {}]
    /\ pruneLeft = [p \in Procs |-> {}]
    /\ finLeft = [p \in Procs |-> <<>>]
    /\ newOp = [p \in Procs |-> NoId]
    /\ result = [p \in Procs |-> NoResult]
    /\ locksTaken = [p \in Procs |-> 0]
    /\ removalRace = FALSE
    /\ migLeft = <<>>
    /\ legacy0 = {}
    /\ interrupted = FALSE
    /\ loads = 0
    /\ merged = {}
    /\ dir0 = subDir
    /\ reruns = 0

\* ------------------------------------------------------------- get_heads
\* A lone head returned without its record having been read.
SingleIgnoringRecord(store, id) == Single(id)

\* What get_heads returns for a lone head: the unwrap of read_operation
\* panics when the record is missing.
SingleOrPanic(store, id) == IF ReadOperation(store, id).ok THEN Single(id) ELSE Panic

\* A first enumeration that sends a lone head to the lock as well.
FirstResultAlwaysLocks(store, ids) ==
    IF Len(ids) = 0 THEN NoHeads ELSE NoResult

\* An enumeration under the lock without the is_empty test of line 224: the
\* index of the first head panics on an empty vector.
LockedResultNoEmptyCheck(store, ids) ==
    IF Len(ids) = 0 THEN Panic
    ELSE IF Len(ids) = 1 THEN SingleOrPanic(store, ids[1])
    ELSE IF \E i \in 1..Len(ids) : ~ReadOperation(store, ids[i]).ok THEN Panic
    ELSE NoResult

\* Lines 198-212: what the first enumeration returns; NoResult when
\* get_heads goes on to take the lock.
FirstResult(store, ids) ==
    IF Len(ids) = 0 THEN NoHeads
    ELSE IF Len(ids) = 1 THEN SingleOrPanic(store, ids[1])
    ELSE NoResult

\* An enumeration under the lock without the early return of lines 229-238.
LockedResultNoSingleReturn(store, ids) ==
    IF Len(ids) = 0 THEN NoHeads
    ELSE IF \E i \in 1..Len(ids) : ~ReadOperation(store, ids[i]).ok THEN Panic
    ELSE NoResult

\* Lines 223-246: what the enumeration under the lock returns; NoResult when
\* get_heads goes on to handle_ancestor_ops.
LockedResult(store, ids) ==
    IF Len(ids) = 0 THEN NoHeads
    ELSE IF Len(ids) = 1 THEN SingleOrPanic(store, ids[1])
    ELSE IF \E i \in 1..Len(ids) : ~ReadOperation(store, ids[i]).ok THEN Panic
    ELSE NoResult

\* A return without the test of lines 250-252 for a single head left.
PrunedResultNoSingle(store, op_heads) == Unresolved(SortByEndTime(store, op_heads))

\* Lines 249-258: Single when one head is left, else the heads sorted by end
\* time.
PrunedResult(store, op_heads) ==
    IF Len(op_heads) = 1 THEN Single(op_heads[1])
    ELSE Unresolved(SortByEndTime(store, op_heads))

\* Lines 198-212: the first enumeration, without the lock.
GetHeadsEnumerate(p) ==
    /\ pc[p] = "idle"
    /\ \E ids \in get_op_heads(subDir) :
        LET r == FirstResult(opStore, ids)
        IN  /\ result' = [result EXCEPT ![p] = r]
            /\ pc' = [pc EXCEPT ![p] = IF r.kind = "None" THEN "gh_lock" ELSE "idle"]
    /\ opHeadIds' = [opHeadIds EXCEPT ![p] = {}]
    /\ locksTaken' = [locksTaken EXCEPT ![p] = 0]
    /\ UNCHANGED <<fsVars, opStore, lockHolder, pruneLeft, finVars, removalRace, migVars, histVars>>

\* Line 222: self.lock().
GetHeadsLock(p) ==
    /\ pc[p] = "gh_lock"
    /\ LockFree
    /\ lockHolder' = p
    /\ subDir' = WriteFile(subDir, LockName)
    /\ locksTaken' = [locksTaken EXCEPT ![p] = @ + 1]
    /\ pc' = [pc EXCEPT ![p] = "gh_enum2"]
    /\ UNCHANGED <<parentDir, opStore, opHeadIds, pruneLeft, finVars, result,
                   removalRace, migVars, histVars>>

\* An enumeration under the lock whose early returns leak the lock guard.
GetHeadsRecheckKeepsLock(p) ==
    /\ pc[p] = "gh_enum2"
    /\ \E ids \in get_op_heads(subDir) :
        LET r == LockedResult(opStore, ids)
            returns == r.kind # "None"
        IN  /\ opHeadIds' = [opHeadIds EXCEPT ![p] = IF returns THEN {} ELSE Range(ids)]
            /\ result' = [result EXCEPT ![p] = r]
            /\ pc' = [pc EXCEPT ![p] = IF returns THEN "idle" ELSE "gh_prune"]
            /\ pruneLeft' = [pruneLeft EXCEPT ![p] =
                                IF returns THEN {} ELSE AncestorOpsRemoved(opStore, Range(ids))]
    /\ UNCHANGED <<fsVars, lockHolder, opStore, finVars, locksTaken, removalRace, migVars,
                   histVars>>

\* Lines 223-247 and 116-121: the enumeration under the lock, the early
\* returns, the read of every head and the heads handle_ancestor_ops is to
\* delete.  A return drops locked_op_heads, which releases the lock.
GetHeadsRecheck(p) ==
    /\ pc[p] = "gh_enum2"
    /\ \E ids \in get_op_heads(subDir) :
        LET r == LockedResult(opStore, ids)
            returns == r.kind # "None"
        IN  /\ opHeadIds' = [opHeadIds EXCEPT ![p] = IF returns THEN {} ELSE Range(ids)]
            /\ result' = [result EXCEPT ![p] = r]
            /\ pc' = [pc EXCEPT ![p] = IF returns THEN "idle" ELSE "gh_prune"]
            /\ lockHolder' = IF returns THEN NoProc ELSE lockHolder
            /\ subDir' = IF returns THEN Unlocked(subDir) ELSE subDir
            /\ pruneLeft' = [pruneLeft EXCEPT ![p] =
                                IF returns THEN {} ELSE AncestorOpsRemoved(opStore, Range(ids))]
    /\ UNCHANGED <<parentDir, opStore, finVars, locksTaken, removalRace, migVars, histVars>>

\* Lines 122-124: one remove_op_head of the loop over the removed heads.
GetHeadsPrune(p) ==
    /\ pc[p] = "gh_prune"
    /\ \E id \in pruneLeft[p] :
        LET r == remove_op_head(subDir, id)
        IN  /\ subDir' = IF r.panic THEN Unlocked(r.dir) ELSE r.dir
            /\ lockHolder' = IF r.panic THEN NoProc ELSE lockHolder
            /\ pc' = [pc EXCEPT ![p] = IF r.panic THEN "idle" ELSE "gh_prune"]
            /\ result' = [result EXCEPT ![p] = IF r.panic THEN Panic ELSE @]
            /\ pruneLeft' = [pruneLeft EXCEPT ![p] = IF r.panic THEN {} ELSE @ \ {id}]
            /\ opHeadIds' = [opHeadIds EXCEPT ![p] = IF r.panic THEN {} ELSE @]
            /\ removalRace' = (removalRace \/ MarkerAbsent(subDir, id))
    /\ UNCHANGED <<parentDir, opStore, finVars, locksTaken, migVars, histVars>>

\* A return that drops the lock guard instead of moving it into the
\* Unresolved result.
GetHeadsReturnDropsLock(p) ==
    /\ pc[p] = "gh_prune"
    /\ pruneLeft[p] = {}
    /\ \E op_heads \in Orderings(AncestorOpsKept(opStore, opHeadIds[p])) :
        LET r == PrunedResult(opStore, op_heads)
            one == r.kind = "Single"
        IN  /\ result' = [result EXCEPT ![p] = r]
            /\ pc' = [pc EXCEPT ![p] = IF one THEN "idle" ELSE "unresolved"]
            /\ opHeadIds' = [opHeadIds EXCEPT ![p] = IF one THEN {} ELSE @]
    /\ lockHolder' = NoProc
    /\ subDir' = Unlocked(subDir)
    /\ UNCHANGED <<parentDir, opStore, pruneLeft, finVars, locksTaken, removalRace, migVars,
                   histVars>>

\* Lines 125 and 249-258: the kept heads are collected from a HashSet, so in
\* any order; get_heads returns Single and releases the lock, or returns
\* Unresolved together with the lock.
GetHeadsReturn(p) ==
    /\ pc[p] = "gh_prune"
    /\ pruneLeft[p] = {}
    /\ \E op_heads \in Orderings(AncestorOpsKept(opStore, opHeadIds[p])) :
        LET r == PrunedResult(opStore, op_heads)
            one == r.kind = "Single"
        IN  /\ result' = [result EXCEPT ![p] = r]
            /\ pc' = [pc EXCEPT ![p] = IF one THEN "idle" ELSE "unresolved"]
            /\ lockHolder' = IF one THEN NoProc ELSE lockHolder
            /\ subDir' = IF one THEN Unlocked(subDir) ELSE subDir
            /\ opHeadIds' = [opHeadIds EXCEPT ![p] = IF one THEN {} ELSE @]
    /\ UNCHANGED <<parentDir, opStore, pruneLeft, finVars, locksTaken, removalRace, migVars, histVars>>

\* ---------------------------------------------------------------- finish
\* A finish that leaves the last parent in place.
finish_steps_skip_last(new_id, parent_ids) ==
    <<[op |-> "add", id |-> new_id]>>
        \o [i \in 1..(Len(parent_ids) - 1) |-> [op |-> "remove", id |-> parent_ids[i]]]

\* A finish that removes the parents before it adds the new operation.
finish_steps_remove_first(new_id, parent_ids) ==
    [i \in 1..Len(parent_ids) |-> [op |-> "remove", id |-> parent_ids[i]]]
        \o <<[op |-> "add", id |-> new_id]>>

\* Lines 56-61: the filesystem steps of finish, in the order it makes them.
finish_steps(new_id, parent_ids) ==
    <<[op |-> "add", id |-> new_id]>>
        \o [i \in 1..Len(parent_ids) |-> [op |-> "remove", id |-> parent_ids[i]]]

\* One add_op_head or remove_op_head of finish.
FinishStep(p) ==
    /\ pc[p] = "finish"
    /\ LET step == Head(finLeft[p])
           r == IF step.op = "add"
                THEN [dir |-> add_op_head(subDir, step.id), panic |-> FALSE]
                ELSE remove_op_head(subDir, step.id)
           last == Len(finLeft[p]) = 1
       IN  /\ subDir' = IF r.panic THEN Unlocked(r.dir) ELSE r.dir
           /\ lockHolder' = IF r.panic THEN NoProc ELSE lockHolder
           /\ pc' = [pc EXCEPT ![p] = IF r.panic THEN "idle"
                                      ELSE IF last THEN "fin_done" ELSE "finish"]
           /\ result' = [result EXCEPT ![p] = IF r.panic THEN Panic ELSE @]
           /\ finLeft' = [finLeft EXCEPT ![p] = IF r.panic THEN <<>> ELSE Tail(@)]
           /\ removalRace' = (removalRace \/ (step.op = "remove" /\ MarkerAbsent(subDir, step.id)))
    /\ merged' = IF /\ Len(finLeft[p]) = 1
                     /\ result[p].kind = "Unresolved"
                     /\ ~remove_op_head(subDir, Head(finLeft[p]).id).panic
                  THEN merged \cup {Range(result[p].ops)}
                  ELSE merged
    /\ UNCHANGED <<parentDir, opStore, ghVars, newOp, migVars, dir0, reruns>>

\* ------------------------------------------------- the callers of the store
NextId(store) == OpId(Cardinality(DOMAIN store) + 1)

CanWrite(store) == Cardinality(DOMAIN store) < MaxOps

\* The caller of an Unresolved result writes the merge operation, whose
\* parents are the heads it was given, and calls finish on it.
MergeWrite(p) ==
    /\ pc[p] = "unresolved"
    /\ CanWrite(opStore)
    /\ \E t \in 1..MaxTime :
        opStore' = WriteOperation(opStore, NextId(opStore),
                                  [parents |-> result[p].ops, time |-> t, tz |-> RootOp.tz])
    /\ newOp' = [newOp EXCEPT ![p] = NextId(opStore)]
    /\ finLeft' = [finLeft EXCEPT ![p] = finish_steps(NextId(opStore), result[p].ops)]
    /\ pc' = [pc EXCEPT ![p] = "finish"]
    /\ UNCHANGED <<fsVars, lockHolder, ghVars, result, removalRace, migVars, histVars>>

\* A transaction on the operation get_heads gave a process writes its
\* operation and then takes the lock to finish it.
CommitWrite(p) ==
    /\ pc[p] = "idle"
    /\ result[p].kind = "Single"
    /\ CanWrite(opStore)
    /\ \E t \in 1..MaxTime :
        opStore' = WriteOperation(opStore, NextId(opStore),
                                  [parents |-> result[p].ops, time |-> t, tz |-> RootOp.tz])
    /\ newOp' = [newOp EXCEPT ![p] = NextId(opStore)]
    /\ result' = [result EXCEPT ![p] = NoResult]
    /\ locksTaken' = [locksTaken EXCEPT ![p] = 0]
    /\ pc' = [pc EXCEPT ![p] = "commit_lock"]
    /\ UNCHANGED <<fsVars, lockHolder, opHeadIds, pruneLeft, finLeft, removalRace, migVars, histVars>>

\* Lines 189-195: SimpleOpHeadsStore::lock, and the call of finish.
CommitLock(p) ==
    /\ pc[p] = "commit_lock"
    /\ LockFree
    /\ lockHolder' = p
    /\ subDir' = WriteFile(subDir, LockName)
    /\ finLeft' = [finLeft EXCEPT ![p] = finish_steps(newOp[p], opStore[newOp[p]].parents)]
    /\ pc' = [pc EXCEPT ![p] = "finish"]
    /\ UNCHANGED <<parentDir, opStore, ghVars, newOp, result, removalRace, migVars, histVars>>

\* The caller drops the lock-bound finisher after finish returned: the
\* FileLock is released.
DropFinished(p) ==
    /\ pc[p] = "fin_done"
    /\ lockHolder' = NoProc
    /\ subDir' = Unlocked(subDir)
    /\ newOp' = [newOp EXCEPT ![p] = NoId]
    /\ result' = [result EXCEPT ![p] = NoResult]
    /\ opHeadIds' = [opHeadIds EXCEPT ![p] = {}]
    /\ locksTaken' = [locksTaken EXCEPT ![p] = 0]
    /\ pc' = [pc EXCEPT ![p] = "idle"]
    /\ UNCHANGED <<parentDir, opStore, pruneLeft, finLeft, removalRace, migVars, histVars>>

\* The caller drops an Unresolved result without finishing.
DropUnresolved(p) ==
    /\ pc[p] = "unresolved"
    /\ lockHolder' = NoProc
    /\ subDir' = Unlocked(subDir)
    /\ opHeadIds' = [opHeadIds EXCEPT ![p] = {}]
    /\ pc' = [pc EXCEPT ![p] = "idle"]
    /\ UNCHANGED <<parentDir, opStore, pruneLeft, finVars, result, locksTaken,
                   removalRace, migVars, histVars>>

\* A process is killed inside finish, between two of its filesystem steps;
\* its lock is released.
KillInFinish(p) ==
    /\ pc[p] = "finish"
    /\ lockHolder' = NoProc
    /\ subDir' = Unlocked(subDir)
    /\ finLeft' = [finLeft EXCEPT ![p] = <<>>]
    /\ newOp' = [newOp EXCEPT ![p] = NoId]
    /\ result' = [result EXCEPT ![p] = NoResult]
    /\ opHeadIds' = [opHeadIds EXCEPT ![p] = {}]
    /\ locksTaken' = [locksTaken EXCEPT ![p] = 0]
    /\ pc' = [pc EXCEPT ![p] = "idle"]
    /\ UNCHANGED <<parentDir, opStore, pruneLeft, removalRace, migVars, histVars>>

\* ------------------------------------------------------------------ Spec
\* Processes that resolve the heads, merge them and commit transactions,
\* every change of the HeadSet made under the lock.
Next ==
    \E p \in Procs :
        \/ GetHeadsEnumerate(p)
        \/ GetHeadsLock(p)
        \/ GetHeadsRecheck(p)
        \/ GetHeadsPrune(p)
        \/ GetHeadsReturn(p)
        \/ MergeWrite(p)
        \/ CommitWrite(p)
        \/ CommitLock(p)
        \/ FinishStep(p)
        \/ DropFinished(p)
        \/ DropUnresolved(p)
        \/ KillInFinish(p)

Spec == Init /\ [][Next]_vars

\* Spec under fair scheduling: a get_heads call goes on with its next step;
\* a process blocked in lock() gets the lock if it is free again and again;
\* the holder of an Unresolved result merges or drops it, a finish goes on
\* or is killed, and a finisher is dropped.
Fairness ==
    \A p \in Procs :
        /\ WF_vars(GetHeadsRecheck(p))
        /\ WF_vars(GetHeadsPrune(p))
        /\ WF_vars(GetHeadsReturn(p))
        /\ SF_vars(GetHeadsLock(p))
        /\ WF_vars(MergeWrite(p) \/ DropUnresolved(p))
        /\ WF_vars(FinishStep(p) \/ KillInFinish(p))
        /\ WF_vars(DropFinished(p))

SpecLive == Init /\ [][Next]_vars /\ Fairness

\* ------------------------------------------- the store's methods, directly
\* Lines 177-179: OpHeadsStore::add_op_head.
AddOpHead(p, id) ==
    /\ pc[p] = "idle"
    /\ subDir' = add_op_head(subDir, id)
    /\ result' = [result EXCEPT ![p] = NoResult]
    /\ UNCHANGED <<parentDir, opStore, lockHolder, pc, ghVars, finVars, removalRace, migVars, histVars>>

\* Lines 181-183: OpHeadsStore::remove_op_head.
RemoveOpHead(p, id) ==
    /\ pc[p] = "idle"
    /\ LET r == remove_op_head(subDir, id)
       IN  /\ subDir' = r.dir
           /\ result' = [result EXCEPT ![p] = IF r.panic THEN Panic ELSE NoResult]
    /\ removalRace' = (removalRace \/ MarkerAbsent(subDir, id))
    /\ UNCHANGED <<parentDir, opStore, lockHolder, pc, ghVars, finVars, migVars, histVars>>

\* The parent lists an operation written to the store can have: one or two
\* operations already written.
ParentLists(store) ==
    {<<a>> : a \in DOMAIN store}
        \cup {<<ab[1], ab[2]>> :
                ab \in {x \in (DOMAIN store) \X (DOMAIN store) : x[1][1] < x[2][1]}}

\* op_store.write_operation, by any writer.  The end time only orders an
\* Unresolved list, which nothing stated of this specification reads, so the
\* writers here stamp every operation alike.
StoreWrite ==
    /\ CanWrite(opStore)
    /\ \E ps \in ParentLists(opStore) :
        opStore' = WriteOperation(opStore, NextId(opStore),
                                  [parents |-> ps, time |-> RootOp.time, tz |-> RootOp.tz])
    /\ UNCHANGED <<fsVars, lockHolder, pc, ghVars, finVars, result, removalRace, migVars, histVars>>

\* Process 1 resolves the heads while process 2 calls add_op_head and
\* remove_op_head, with or without a record in the operation store.
Resolver == "p1"
Writer == "p2"

NextStore ==
    \/ GetHeadsEnumerate(Resolver)
    \/ GetHeadsLock(Resolver)
    \/ GetHeadsRecheck(Resolver)
    \/ GetHeadsPrune(Resolver)
    \/ GetHeadsReturn(Resolver)
    \/ DropUnresolved(Resolver)
    \/ \E id \in AllIds : AddOpHead(Writer, id)
    \/ \E id \in AllIds : RemoveOpHead(Writer, id)
    \/ StoreWrite

SpecStore == Init /\ [][NextStore]_vars

\* ------------------------------------------------------------------ load
SubDirExists == SubDirName \in parentDir

Returned(n) == IF n < MaxLoads THEN n + 1 ELSE n

\* Line 150: load looks for dir/simple_op_heads and returns the store when
\* it is there.
LoadCheck(p) ==
    /\ pc[p] \in {"closed", "open"}
    /\ loads < MaxLoads
    /\ pc' = [pc EXCEPT ![p] = IF SubDirExists THEN "open" ELSE "load_mkdir"]
    /\ loads' = IF SubDirExists THEN Returned(loads) ELSE loads
    /\ UNCHANGED <<fsVars, opStore, lockHolder, ghVars, finVars, result, removalRace,
                   migLeft, legacy0, interrupted, histVars>>

\* Line 154: fs::create_dir(&op_heads_dir).
LoadCreateDir(p) ==
    /\ pc[p] = "load_mkdir"
    /\ ~SubDirExists
    /\ parentDir' = parentDir \cup {SubDirName}
    /\ subDir' = {}
    /\ pc' = [pc EXCEPT ![p] = "load_list"]
    /\ UNCHANGED <<opStore, lockHolder, ghVars, finVars, result, removalRace, migVars, histVars>>

\* Line 157: old_store.get_op_heads().
LoadList(p) ==
    /\ pc[p] = "load_list"
    /\ \E ids \in get_op_heads(parentDir) :
        /\ migLeft' = ids
        /\ pc' = [pc EXCEPT ![p] = IF ids = <<>> THEN "open" ELSE "load_rm"]
        /\ loads' = IF ids = <<>> THEN Returned(loads) ELSE loads
    /\ UNCHANGED <<fsVars, opStore, lockHolder, ghVars, finVars, result, removalRace,
                   legacy0, interrupted, histVars>>

\* Line 158: old_store.remove_op_head(&id).
LoadRemoveOld(p) ==
    /\ pc[p] = "load_rm"
    /\ LET r == remove_op_head(parentDir, Head(migLeft))
       IN  /\ parentDir' = r.dir
           /\ pc' = [pc EXCEPT ![p] = IF r.panic THEN "closed" ELSE "load_add"]
           /\ migLeft' = IF r.panic THEN <<>> ELSE migLeft
           /\ interrupted' = (interrupted \/ r.panic)
    /\ removalRace' = (removalRace \/ MarkerAbsent(parentDir, Head(migLeft)))
    /\ UNCHANGED <<subDir, opStore, lockHolder, ghVars, finVars, result,
                   legacy0, loads, histVars>>

\* Line 159: new_store.add_op_head(&id).
LoadAddNew(p) ==
    /\ pc[p] = "load_add"
    /\ subDir' = add_op_head(subDir, Head(migLeft))
    /\ migLeft' = Tail(migLeft)
    /\ pc' = [pc EXCEPT ![p] = IF Tail(migLeft) = <<>> THEN "open" ELSE "load_rm"]
    /\ loads' = IF Tail(migLeft) = <<>> THEN Returned(loads) ELSE loads
    /\ UNCHANGED <<parentDir, opStore, lockHolder, ghVars, finVars, result, removalRace,
                   legacy0, interrupted, histVars>>

\* The process running load stops between two filesystem steps.
LoadInterrupt(p) ==
    /\ pc[p] \in {"load_list", "load_rm", "load_add"}
    /\ pc' = [pc EXCEPT ![p] = "closed"]
    /\ migLeft' = <<>>
    /\ interrupted' = TRUE
    /\ UNCHANGED <<fsVars, opStore, lockHolder, ghVars, finVars, result, removalRace,
                   legacy0, loads, histVars>>

\* A directory in the legacy layout: the markers of any set of ids, with or
\* without an entry that is no marker.
InitMig ==
    /\ legacy0 \in SUBSET AllIds
    /\ \E other \in SUBSET {LockName} :
        parentDir = {Hex(id) : id \in legacy0} \cup other
    /\ subDir = {}
    /\ opStore = [x \in {RootId} |-> RootOp]
    /\ lockHolder = NoProc
    /\ pc = [p \in Procs |-> "closed"]
    /\ opHeadIds = [p \in Procs |-> {}]
    /\ pruneLeft = [p \in Procs |-> {}]
    /\ finLeft = [p \in Procs |-> <<>>]
    /\ newOp = [p \in Procs |-> NoId]
    /\ result = [p \in Procs |-> NoResult]
    /\ locksTaken = [p \in Procs |-> 0]
    /\ removalRace = FALSE
    /\ migLeft = <<>>
    /\ interrupted = FALSE
    /\ loads = 0
    /\ merged = {}
    /\ dir0 = subDir
    /\ reruns = 0

Opener == "p1"

NextMig ==
    \/ LoadCheck(Opener)
    \/ LoadCreateDir(Opener)
    \/ LoadList(Opener)
    \/ LoadRemoveOld(Opener)
    \/ LoadAddNew(Opener)
    \/ LoadInterrupt(Opener)

SpecMig == InitMig /\ [][NextMig]_vars


\* ------------------------------------------- a lock that excludes nobody
\* Lines 92-95: on a file system where the locking does not work, lock()
\* returns at once whoever holds the lock.
GetHeadsLockBroken(p) ==
    /\ pc[p] = "gh_lock"
    /\ lockHolder' = p
    /\ subDir' = WriteFile(subDir, LockName)
    /\ locksTaken' = [locksTaken EXCEPT ![p] = @ + 1]
    /\ pc' = [pc EXCEPT ![p] = "gh_enum2"]
    /\ UNCHANGED <<parentDir, opStore, opHeadIds, pruneLeft, finVars, result,
                   removalRace, migVars, histVars>>

CommitLockBroken(p) ==
    /\ pc[p] = "commit_lock"
    /\ lockHolder' = p
    /\ subDir' = WriteFile(subDir, LockName)
    /\ finLeft' = [finLeft EXCEPT ![p] = finish_steps(newOp[p], opStore[newOp[p]].parents)]
    /\ pc' = [pc EXCEPT ![p] = "finish"]
    /\ UNCHANGED <<parentDir, opStore, ghVars, newOp, result, removalRace, migVars, histVars>>

NextNoLock ==
    \E p \in Procs :
        \/ GetHeadsEnumerate(p)
        \/ GetHeadsLockBroken(p)
        \/ GetHeadsRecheck(p)
        \/ GetHeadsPrune(p)
        \/ GetHeadsReturn(p)
        \/ MergeWrite(p)
        \/ CommitWrite(p)
        \/ CommitLockBroken(p)
        \/ FinishStep(p)
        \/ DropFinished(p)
        \/ DropUnresolved(p)
        \/ KillInFinish(p)

SpecNoLock == Init /\ [][NextNoLock]_vars

\* ------------------------------------------------------ finish, called again
\* The parent lists of an operation: up to two distinct ids.
ParentSeqs(ids) ==
    {<<>>} \cup {<<a>> : a \in ids}
           \cup {<<ab[1], ab[2]>> : ab \in {x \in ids \X ids : x[1] # x[2]}}

Finisher == "p1"

\* finish stops between two of its filesystem steps (a failure the caller
\* survives); the caller keeps the finisher and its lock.
FinishStop(p) ==
    /\ pc[p] = "finish"
    /\ pc' = [pc EXCEPT ![p] = "fin_stopped"]
    /\ finLeft' = [finLeft EXCEPT ![p] = <<>>]
    /\ UNCHANGED <<fsVars, opStore, lockHolder, ghVars, newOp, result, removalRace,
                   migVars, histVars>>

\* Lines 56-61: the caller calls finish again for the same operation, after
\* finish returned or after it stopped.
FinishAgain(p) ==
    /\ pc[p] \in {"fin_stopped", "fin_done"}
    /\ reruns < MaxReruns
    /\ reruns' = reruns + 1
    /\ finLeft' = [finLeft EXCEPT ![p] = finish_steps(newOp[p], opStore[newOp[p]].parents)]
    /\ pc' = [pc EXCEPT ![p] = "finish"]
    /\ UNCHANGED <<fsVars, opStore, lockHolder, ghVars, newOp, result, removalRace,
                   migVars, merged, dir0>>

\* Any directory of markers, and the finisher of any operation with up to
\* two parents, about to make the first step of finish.
InitFinish ==
    /\ \E new_id \in AllIds, d \in SUBSET {Hex(id) : id \in AllIds} :
        \E parent_ids \in ParentSeqs(AllIds \ {new_id}) :
            /\ subDir = WriteFile(d, LockName)
            /\ opStore = [x \in {new_id} |->
                            [parents |-> parent_ids, time |-> RootOp.time, tz |-> RootOp.tz]]
            /\ newOp = [p \in Procs |-> IF p = Finisher THEN new_id ELSE NoId]
            /\ finLeft = [p \in Procs |->
                            IF p = Finisher THEN finish_steps(new_id, parent_ids) ELSE <<>>]
    /\ parentDir = {SubDirName}
    /\ lockHolder = Finisher
    /\ pc = [p \in Procs |-> IF p = Finisher THEN "finish" ELSE "idle"]
    /\ opHeadIds = [p \in Procs |-> {}]
    /\ pruneLeft = [p \in Procs |-> {}]
    /\ result = [p \in Procs |-> NoResult]
    /\ locksTaken = [p \in Procs |-> 0]
    /\ removalRace = FALSE
    /\ migLeft = <<>>
    /\ legacy0 = {}
    /\ interrupted = FALSE
    /\ loads = 0
    /\ merged = {}
    /\ dir0 = subDir
    /\ reruns = 0

NextFinish ==
    \/ FinishStep(Finisher)
    \/ FinishStop(Finisher)
    \/ FinishAgain(Finisher)

SpecFinish == InitFinish /\ [][NextFinish]_vars

\* ------------------------------------------------- get_heads on given heads
\* Two or more children of the root are heads, with any end times and time
\* zone offsets; the root's marker may have been left behind.
InitSort ==
    /\ \E n \in 2..(MaxOps - 1) :
        LET heads == {OpId(i) : i \in 2..(n + 1)}
        IN  \E end \in [heads -> (1..MaxTime) \X (0..MaxTz)], stale \in SUBSET {RootId} :
                /\ opStore = [x \in heads \cup {RootId} |->
                                IF x = RootId THEN RootOp
                                ELSE [parents |-> <<RootId>>, time |-> end[x][1],
                                      tz |-> end[x][2]]]
                /\ subDir = {Hex(id) : id \in heads \cup stale}
    /\ parentDir = {SubDirName}
    /\ lockHolder = NoProc
    /\ pc = [p \in Procs |-> "idle"]
    /\ opHeadIds = [p \in Procs |-> {}]
    /\ pruneLeft = [p \in Procs |-> {}]
    /\ finLeft = [p \in Procs |-> <<>>]
    /\ newOp = [p \in Procs |-> NoId]
    /\ result = [p \in Procs |-> NoResult]
    /\ locksTaken = [p \in Procs |-> 0]
    /\ removalRace = FALSE
    /\ migLeft = <<>>
    /\ legacy0 = {}
    /\ interrupted = FALSE
    /\ loads = 0
    /\ merged = {}
    /\ dir0 = subDir
    /\ reruns = 0

NextSort ==
    \E p \in Procs :
        \/ GetHeadsEnumerate(p)
        \/ GetHeadsLock(p)
        \/ GetHeadsRecheck(p)
        \/ GetHeadsPrune(p)
        \/ GetHeadsReturn(p)
        \/ DropUnresolved(p)

SpecSort == InitSort /\ [][NextSort]_vars

\* ================================================================ claims

\* The operations that are kept when the ancestors among obs are dropped.
NotAncestors(obs) == {x \in obs : \A y \in obs : x \notin Ancestors(opStore, y)}

MarkersOf(ids) == {Hex(id) : id \in ids}

DistinctEndTimes(ids) ==
    \A a, b \in ids : a # b => opStore[a].time # opStore[b].time

\* C1: when a process has finished the merge operation M whose parents are
\* exactly the heads of the Unresolved result it was given, and still holds
\* the lock of that result, the HeadSet is exactly {M}.
FinisherComposition ==
    \A p \in Procs :
        (/\ pc[p] = "fin_done"
         /\ result[p].kind = "Unresolved"
         /\ opStore[newOp[p]].parents = result[p].ops)
            => HeadSet(subDir) = {newOp[p]}

\* A merge of two heads has been finished.
FinishedMergeOfTwo ==
    \E p \in Procs :
        /\ pc[p] = "fin_done"
        /\ result[p].kind = "Unresolved"
        /\ Len(result[p].ops) = 2
        /\ opStore[newOp[p]].parents = result[p].ops

\* C2: the HeadSet is never empty, and whenever finish is about to remove a
\* parent id the new operation's id is already a head.
NeverEmptyHeadSet ==
    /\ HeadSet(subDir) # {}
    /\ \A p \in Procs :
        (pc[p] = "finish" /\ Head(finLeft[p]).op = "remove")
            => newOp[p] \in HeadSet(subDir)

\* A finish stands between its add and its first remove while the other
\* process is inside get_heads.
BetweenAddAndRemove ==
    \E p, q \in Procs :
        /\ pc[p] = "finish"
        /\ Head(finLeft[p]).op = "remove"
        /\ Len(finLeft[p]) = Len(opStore[newOp[p]].parents)
        /\ Head(finLeft[p]).id \in HeadSet(subDir)
        /\ pc[q] = "gh_lock"

\* C3: the step that ends the pruning path of get_heads returns exactly the
\* heads enumerated under the lock that are no ancestor of another of them,
\* as Single when it is one head and as Unresolved when they are several; the
\* markers of the ancestors are gone from storage and those of the returned
\* heads are there.
AncestorPruning ==
    [][\A p \in Procs :
        (pc[p] = "gh_prune" /\ pc'[p] # "gh_prune") =>
            LET obs == opHeadIds[p]
                kept == NotAncestors(obs)
            IN  /\ Cardinality(obs) >= 2
                /\ Range(result'[p].ops) = kept
                /\ Len(result'[p].ops) = Cardinality(kept)
                /\ result'[p].kind = IF Cardinality(kept) = 1 THEN "Single" ELSE "Unresolved"
                /\ \A x \in obs \ kept : Hex(x) \notin subDir'
                /\ \A x \in kept : Hex(x) \in subDir']_vars

\* The root and two of its children were all heads; get_heads returned the
\* two children as Unresolved and the root's marker is gone.
PrunedRootOfTwoChildren ==
    \E p \in Procs :
        /\ pc[p] = "unresolved"
        /\ Cardinality(opHeadIds[p]) = 3
        /\ RootId \in opHeadIds[p]
        /\ Len(result[p].ops) = 2
        /\ Hex(RootId) \notin subDir

\* C4: an Unresolved list whose heads have pairwise distinct end times is in
\* strictly ascending end time, and two Unresolved results for the same set
\* of heads are the same list.
DeterministicOrdering ==
    \A p \in Procs :
        (result[p].kind = "Unresolved" /\ DistinctEndTimes(Range(result[p].ops))) =>
            /\ \A i, j \in 1..Len(result[p].ops) :
                i < j => opStore[result[p].ops[i]].time < opStore[result[p].ops[j]].time
            /\ \A q \in Procs :
                (/\ result[q].kind = "Unresolved"
                 /\ Range(result[q].ops) = Range(result[p].ops))
                    => result[q].ops = result[p].ops

\* Both processes were given Unresolved for the same heads, of distinct end
\* times, one after the other.
RepeatedUnresolved ==
    /\ result["p1"].kind = "Unresolved"
    /\ result["p2"].kind = "Unresolved"
    /\ Range(result["p1"].ops) = Range(result["p2"].ops)
    /\ DistinctEndTimes(Range(result["p1"].ops))
    /\ pc["p1"] = "idle"
    /\ pc["p2"] = "unresolved"


\* C5: a first enumeration that yields exactly one id makes get_heads return
\* Single of that id in the same step, with no lock acquired and the lock
\* and the HeadSet left as they were; and get_heads can make that step while
\* the other process holds the lock.
SingleHeadFastPath ==
    /\ [](\A p \in Procs :
            (pc[p] = "idle" /\ lockHolder \notin {NoProc, p})
                => ENABLED GetHeadsEnumerate(p))
    /\ [][\A p \in Procs :
            (GetHeadsEnumerate(p) /\ Cardinality(HeadSet(subDir)) = 1) =>
                /\ result'[p].kind = "Single"
                /\ {result'[p].ops[1]} = HeadSet(subDir)
                /\ pc'[p] = "idle"
                /\ locksTaken'[p] = 0
                /\ lockHolder' = lockHolder
                /\ subDir' = subDir]_vars

\* A process was given Single of the operation the other process has just
\* finished, without a lock, while that other process still holds the lock.
FastPathWhileLocked ==
    \E p, q \in Procs :
        /\ p # q
        /\ lockHolder = q
        /\ pc[q] = "fin_done"
        /\ HeadSet(subDir) = {newOp[q]}
        /\ pc[p] = "idle"
        /\ result[p] = Single(newOp[q])
        /\ locksTaken[p] = 0

\* C6: an empty enumeration makes get_heads return NoHeads, at the first
\* enumeration and at the one under the lock; the HeadSet is left as it was
\* and, under the lock, the lock is released with the return.
NoHeadsError ==
    [][\A p \in Procs :
        /\ (GetHeadsEnumerate(p) /\ HeadSet(subDir) = {}) =>
                /\ result'[p] = NoHeads
                /\ pc'[p] = "idle"
                /\ subDir' = subDir
                /\ lockHolder' = lockHolder
        /\ (GetHeadsRecheck(p) /\ HeadSet(subDir) = {}) =>
                /\ result'[p] = NoHeads
                /\ pc'[p] = "idle"
                /\ HeadSet(subDir') = {}
                /\ lockHolder' = NoProc
                /\ LockName \notin subDir']_vars

\* get_heads saw several heads, took the lock, found none and returned
\* NoHeads.
NoHeadsUnderLock ==
    /\ result[Resolver] = NoHeads
    /\ locksTaken[Resolver] = 1
    /\ pc[Resolver] = "idle"
    /\ HeadSet(subDir) = {}
    /\ LockFree

\* C7: when load has returned and no load was interrupted, the new layout
\* holds exactly the markers of the legacy set, no marker is left in the
\* parent directory, and the parent directory holds the subdirectory only;
\* that is so after the first load and after the second.
MigrationIdempotence ==
    (pc[Opener] = "open" /\ ~interrupted) =>
        /\ HeadSet(subDir) = legacy0
        /\ subDir = MarkersOf(legacy0)
        /\ HeadSet(parentDir) = {}
        /\ parentDir \ {LockName} = {SubDirName}

\* load has returned twice on a legacy directory of two or more markers.
MigratedTwice ==
    /\ pc[Opener] = "open"
    /\ loads = 2
    /\ ~interrupted
    /\ Cardinality(legacy0) >= 2

\* C8: in every state of a migration, every id of the legacy set has a
\* marker in the old layout or in the new one.
MigrationKeepsEveryId ==
    \A id \in legacy0 : Hex(id) \in parentDir \/ Hex(id) \in subDir

\* C9: whenever load has returned, interrupted before or not, the new layout
\* holds exactly the legacy set and no marker is left in the parent
\* directory.
InterruptedMigrationCompletes ==
    pc[Opener] = "open" => (HeadSet(subDir) = legacy0 /\ HeadSet(parentDir) = {})

\* C10: remove_op_head never fails, its marker is absent afterwards and
\* every other entry is as it was, whether the marker was there or not; the
\* removals of get_heads do not fail either when the marker is gone already.
LenientRemove ==
    [][/\ \A p \in Procs, id \in AllIds :
            RemoveOpHead(p, id) =>
                /\ result'[p].kind # "Panic"
                /\ Hex(id) \notin subDir'
                /\ id \notin HeadSet(subDir')
                /\ subDir' \ {Hex(id)} = subDir \ {Hex(id)}
       /\ \A p \in Procs :
            GetHeadsPrune(p) =>
                /\ result'[p].kind # "Panic"
                /\ pc'[p] = "gh_prune"
                /\ Cardinality(subDir \ subDir') <= 1
                /\ subDir' \subseteq subDir]_vars

\* get_heads went to remove the marker of an ancestor the other process had
\* removed meanwhile, and carried on.
RemovedAbsentMarker ==
    /\ removalRace
    /\ pc[Resolver] = "gh_prune"
    /\ pruneLeft[Resolver] = {}
    /\ \E id \in AncestorOpsRemoved(opStore, opHeadIds[Resolver]) : Hex(id) \notin subDir
    /\ result[Writer] = NoResult

\* C11: a process that holds an Unresolved result holds the lock over the
\* very heads it was given; dropping the result frees the lock, so that a
\* process waiting for it can take it, and leaves the HeadSet as it was; and
\* a get_heads that then returns Unresolved for the same HeadSet returns the
\* same list.
AbandonedResolution ==
    /\ \A p \in Procs :
        pc[p] = "unresolved" =>
            (lockHolder = p /\ HeadSet(subDir) = Range(result[p].ops))
    /\ \A p \in Procs :
        (pc[p] = "idle" /\ result[p].kind = "Unresolved") =>
            /\ lockHolder # p
            /\ LockFree => \A q \in Procs : pc[q] = "gh_lock" => ENABLED GetHeadsLock(q)
            /\ \A q \in Procs :
                (/\ pc[q] = "unresolved"
                 /\ Range(result[q].ops) = Range(result[p].ops))
                    => result[q].ops = result[p].ops

\* C12: a re-enumeration under the lock that finds one head makes get_heads
\* return Single of it in that step, with the lock released and no finisher
\* handed out; and no process is ever given Unresolved for a set of heads
\* whose merge a caller has finished before it released the lock.
RecheckPreventsDuplicateMerges ==
    /\ [](\A p \in Procs :
            pc[p] = "unresolved" => Range(result[p].ops) \notin merged)
    /\ [][\A p \in Procs :
            (GetHeadsRecheck(p) /\ Cardinality(HeadSet(subDir)) = 1) =>
                /\ result'[p].kind = "Single"
                /\ {result'[p].ops[1]} = HeadSet(subDir)
                /\ pc'[p] = "idle"
                /\ lockHolder' = NoProc
                /\ LockName \notin subDir']_vars

\* A process that saw several heads and took the lock was given Single of
\* the operation that merges heads another process had finished merging.
SingleAfterOthersMerge ==
    \E p \in Procs :
        /\ pc[p] = "idle"
        /\ result[p].kind = "Single"
        /\ locksTaken[p] = 1
        /\ Range(opStore[result[p].ops[1]].parents) \in merged
        /\ HeadSet(subDir) = {result[p].ops[1]}

\* C13: when a head get_heads has to read has no record in the operation
\* store (the lone head of the first enumeration, the lone head of the
\* enumeration under the lock, or any of several heads under the lock),
\* get_heads ends in a panic in that step, with every marker as it was and
\* the lock, if it was taken, released; nothing is pruned from, and nothing
\* is returned that holds, a head without a record.
MissingRecordIsFatal ==
    /\ [](\A p \in Procs :
            /\ pc[p] = "gh_prune" => opHeadIds[p] \subseteq DOMAIN opStore
            /\ result[p].kind \in {"Single", "Unresolved"}
                    => Range(result[p].ops) \subseteq DOMAIN opStore)
    /\ [][\A p \in Procs :
            /\ (/\ GetHeadsEnumerate(p)
                /\ Cardinality(HeadSet(subDir)) = 1
                /\ ~(HeadSet(subDir) \subseteq DOMAIN opStore)) =>
                    /\ result'[p] = Panic
                    /\ pc'[p] = "idle"
                    /\ subDir' = subDir
                    /\ lockHolder' = lockHolder
            /\ (/\ GetHeadsRecheck(p)
                /\ ~(HeadSet(subDir) \subseteq DOMAIN opStore)) =>
                    /\ result'[p] = Panic
                    /\ pc'[p] = "idle"
                    /\ HeadSet(subDir') = HeadSet(subDir)
                    /\ subDir' = Unlocked(subDir)
                    /\ lockHolder' = NoProc]_vars

\* get_heads took the lock over several heads, one of them without a record,
\* and panicked; the heads are all still there and the lock is free.
PanickedUnderLock ==
    /\ result[Resolver] = Panic
    /\ pc[Resolver] = "idle"
    /\ locksTaken[Resolver] = 1
    /\ LockFree
    /\ Cardinality(HeadSet(subDir)) >= 2
    /\ \E id \in HeadSet(subDir) : id \notin DOMAIN opStore
    /\ \E id \in HeadSet(subDir) : id \in DOMAIN opStore

\* The entries of d that are markers of id.
MarkersFor(d, id) == {n \in d : HexDecode(n).ok /\ HexDecode(n).bytes = id}

\* C14: however often finish(M) is called again, after it returned or after
\* it stopped behind any of its steps, a finish(M) that has returned leaves
\* the directory a single finish(M) leaves: M's marker there once, no marker
\* of a parent, every other entry as at first; no call fails; and once M has
\* been added, once or again, there is exactly one marker for M.
FinisherIdempotence ==
    LET M == newOp[Finisher]
        parents == Range(opStore[M].parents)
    IN  /\ result[Finisher] # Panic
        /\ pc[Finisher] = "fin_done" =>
            /\ subDir = (dir0 \cup {Hex(M)}) \ MarkersOf(parents)
            /\ HeadSet(subDir) = (HeadSet(dir0) \cup {M}) \ parents
            /\ Cardinality(MarkersFor(subDir, M)) = 1
        /\ (pc[Finisher] = "finish" /\ Head(finLeft[Finisher]).op = "remove") =>
            Cardinality(MarkersFor(subDir, M)) = 1

\* finish has returned from its third call for an operation with two
\* parents, of which one had a marker at first and one had none.
FinishedAgain ==
    /\ pc[Finisher] = "fin_done"
    /\ reruns = MaxReruns
    /\ Len(opStore[newOp[Finisher]].parents) = 2
    /\ Hex(opStore[newOp[Finisher]].parents[1]) \in dir0
    /\ Hex(opStore[newOp[Finisher]].parents[2]) \notin dir0
    /\ Hex(newOp[Finisher]) \notin dir0

\* C15: when the heads enumerated under the lock are an operation M and
\* ancestors of M (a finish(M) that did not remove all of M's parents),
\* get_heads returns Single(M) and leaves M as the only head, with the lock
\* released; and no Unresolved result ever lists a head together with one of
\* its ancestors.
RepairOfIncompleteDelete ==
    /\ [](\A p \in Procs :
            result[p].kind = "Unresolved" =>
                \A x, y \in Range(result[p].ops) : x \notin Ancestors(opStore, y))
    /\ [][\A p \in Procs : \A M \in opHeadIds[p] :
            (/\ GetHeadsReturn(p)
             /\ opHeadIds[p] # {M}
             /\ opHeadIds[p] \ {M} \subseteq Ancestors(opStore, M)) =>
                /\ result'[p] = Single(M)
                /\ HeadSet(subDir') = {M}
                /\ pc'[p] = "idle"
                /\ lockHolder' = NoProc
                /\ LockName \notin subDir']_vars

\* get_heads found an operation with two parents next to one of its parents,
\* and has removed the parent's marker.
ParentLeftBehindRemoved ==
    \E p \in Procs : \E M \in opHeadIds[p] :
        /\ pc[p] = "gh_prune"
        /\ pruneLeft[p] = {}
        /\ Len(opStore[M].parents) = 2
        /\ opHeadIds[p] # {M}
        /\ opHeadIds[p] \ {M} \subseteq Range(opStore[M].parents)
        /\ HeadSet(subDir) = {M}

\* The order of end times by their fields: the timestamp, then the time
\* zone offset.
EndTimeBefore(a, b) ==
    \/ opStore[a].time < opStore[b].time
    \/ (opStore[a].time = opStore[b].time /\ opStore[a].tz <= opStore[b].tz)

\* C16: the heads of an Unresolved list are in the order of their end times,
\* heads of equal timestamp in the order of their time zone offsets, and two
\* Unresolved results for the same heads are the same list, ties or not.
TieOrderDeterminism ==
    \A p \in Procs :
        result[p].kind = "Unresolved" =>
            /\ \A i, j \in 1..Len(result[p].ops) :
                i < j => EndTimeBefore(result[p].ops[i], result[p].ops[j])
            /\ \A q \in Procs :
                (/\ result[q].kind = "Unresolved"
                 /\ Range(result[q].ops) = Range(result[p].ops))
                    => result[q].ops = result[p].ops

\* The positions at which a process owns the lock: get_heads from the
\* re-enumeration on, a live Unresolved result, a finisher.
LockPhases == {"gh_enum2", "gh_prune", "unresolved", "finish", "fin_done"}

\* C17: at most one process is at a position that owns the lock, and it is
\* the lock's holder; a process that needs the lock cannot take it while it
\* is held; and a holder loses the lock only by its own step that ends its
\* get_heads call or drops its result or finisher.
MutualExclusion ==
    /\ [](\A p, q \in Procs :
            (pc[p] \in LockPhases /\ pc[q] \in LockPhases) => p = q)
    /\ [](\A p \in Procs :
            /\ pc[p] \in LockPhases <=> lockHolder = p
            /\ (pc[p] = "gh_lock" /\ ~LockFree) => ~ENABLED GetHeadsLock(p)
            /\ (pc[p] = "commit_lock" /\ ~LockFree) => ~ENABLED CommitLock(p))
    /\ [][\A p \in Procs :
            (lockHolder = p /\ lockHolder' # p) =>
                /\ lockHolder' = NoProc
                /\ pc'[p] = "idle"
                /\ pc[p] \in LockPhases
                /\ \A q \in Procs \ {p} : pc'[q] = pc[q]]_vars

\* One process holds an Unresolved result while the other waits for the
\* lock to finish a transaction.
WaitingForUnresolvedHolder ==
    \E p, q \in Procs :
        /\ pc[p] = "unresolved"
        /\ pc[q] = "commit_lock"
        /\ lockHolder = p

\* Whether id is a head in directory d or an ancestor of one.
Covered(id, d, store) ==
    \E h \in HeadSet(d) : id = h \/ id \in Ancestors(store, h)

\* C18: with a lock that excludes nobody, no step of get_heads or finish
\* loses a head: every head before the step is, after it, a head or an
\* ancestor of a head.  Records never change and ancestry is transitive, so
\* every id that ever was a head stays a head or an ancestor of one.
NoHeadLost ==
    /\ [](HeadSet(subDir) # {})
    /\ [][\A id \in HeadSet(subDir) : Covered(id, subDir', opStore')]_vars

\* Both processes act as holders of the lock at once: one is pruning heads
\* it enumerated while the other is removing the parents of the operation
\* it finishes, and a head the first one enumerated is gone.
PruningWhileFinishing ==
    \E p, q \in Procs :
        /\ p # q
        /\ pc[p] = "gh_prune"
        /\ pc[q] = "finish"
        /\ Head(finLeft[q]).op = "remove"
        /\ opHeadIds[p] \ HeadSet(subDir) # {}
        /\ newOp[q] \notin opHeadIds[p]

\* The entries of d that are markers.
Markers(d) == {n \in d : HexDecode(n).ok}

\* The enumerated heads of p that are an ancestor of another of them.
EnumeratedAncestors(p) ==
    {x \in opHeadIds[p] : \E y \in opHeadIds[p] : x \in Ancestors(opStore, y)}

\* C19: no step of get_heads adds a marker; the enumerations, the taking of
\* the lock and the returns (NoHeads, Single, Unresolved, at either
\* enumeration) remove none; a step of the pruning removes only the marker
\* of a head enumerated under the lock that is an ancestor of another head
\* of that enumeration; and no head get_heads returns after pruning is one
\* of those it removed.
FrameOfGetHeads ==
    [][\A p \in Procs :
        /\ (\/ GetHeadsEnumerate(p)
            \/ GetHeadsLock(p)
            \/ GetHeadsRecheck(p)
            \/ GetHeadsReturn(p)) => Markers(subDir') = Markers(subDir)
        /\ GetHeadsPrune(p) =>
            /\ Markers(subDir') \subseteq Markers(subDir)
            /\ \A n \in Markers(subDir) \ Markers(subDir') :
                \E x \in EnumeratedAncestors(p) : n = Hex(x)
        /\ GetHeadsReturn(p) =>
            /\ Range(result'[p].ops) \cap EnumeratedAncestors(p) = {}
            /\ Range(result'[p].ops) \subseteq opHeadIds[p]]_vars

\* get_heads has removed the markers of the ancestors it enumerated, each of
\* which was there to remove, and the heads it keeps are all in place.
PrunedOnlyAncestors ==
    /\ pc[Resolver] = "gh_prune"
    /\ pruneLeft[Resolver] = {}
    /\ ~removalRace
    /\ EnumeratedAncestors(Resolver) # {}
    /\ HeadSet(subDir) = opHeadIds[Resolver] \ EnumeratedAncestors(Resolver)
    /\ Cardinality(HeadSet(subDir)) >= 2

\* C20: a get_heads call takes the lock at most once, and only after an
\* enumeration of two or more heads; a return other than Unresolved leaves
\* the lock free of the caller; and under fair scheduling every call that is
\* under way returns.
ResolutionTerminates ==
    /\ [](\A p \in Procs :
            /\ locksTaken[p] <= 1
            /\ pc[p] = "idle" => lockHolder # p)
    /\ [][\A p \in Procs :
            (GetHeadsEnumerate(p) /\ pc'[p] = "gh_lock")
                => Cardinality(HeadSet(subDir)) >= 2]_vars
    /\ \A p \in Procs :
            (pc[p] \in {"gh_lock", "gh_enum2", "gh_prune"})
                ~> (pc[p] \in {"idle", "unresolved"})

\* Both processes have been through a get_heads call that took the lock, one
\* of them behind the other, and the lock is free.
BothReturnedThroughLock ==
    /\ \A p \in Procs :
        /\ pc[p] = "idle"
        /\ locksTaken[p] = 1
        /\ result[p].kind \in {"Single", "Unresolved"}
    /\ LockFree

====
